---- MODULE Spec2Model ----
(***************************************************************************)
(* Chow ring ideals of matroids (sage/matroids/chow_ring_ideal.py).        *)
(*                                                                         *)
(* An ideal instance is built from a matroid M in one of three             *)
(* presentations (non-augmented, Feitchner-Yuzvinsky, atom-free).  The     *)
(* constructor computes the list of proper flats, the flat -> indeterminate *)
(* mapping and the generator sequence; groebner_basis(algorithm) computes  *)
(* a polynomial sequence from the lattice of flats.                        *)
(*                                                                         *)
(* Polynomials are modelled exactly: a monomial is its exponent vector     *)
(* over the ring's indeterminates 1..nv (in the order of poly_ring.gens()),*)
(* a polynomial is the function from its monomials to their non-zero       *)
(* integer coefficients, so two polynomials are equal iff they are equal   *)
(* as ring elements over a coefficient ring of characteristic 0.           *)
(***************************************************************************)
EXTENDS Integers, Sequences, FiniteSets

(***************************************************************************)
(* Bounds of the model.                                                    *)
(***************************************************************************)
\* largest groundset: matroids live on 1..n for n in 1..MaxE
MaxE == 3
\* enumeration budget: most proper flats of a matroid that is explored
MaxFlats == 6
\* largest groundset of the uniform matroids U(2, n) of SpecAll
MaxUniform == 5

(***************************************************************************)
(* Generic helpers.                                                        *)
(***************************************************************************)
Min(S) == CHOOSE x \in S : \A y \in S : x <= y

Max(S) == CHOOSE x \in S : \A y \in S : y <= x

RECURSIVE SumF(_, _)
\* sum of f[x] over x in S
SumF(f, S) ==
    IF S = {} THEN 0
    ELSE LET x == CHOOSE y \in S : TRUE
         IN  f[x] + SumF(f, S \ {x})

RECURSIVE Concat(_)
\* concatenation of a sequence of sequences (list.extend / repeated append)
Concat(ss) ==
    IF ss = <<>> THEN <<>>
    ELSE IF Len(ss) = 1 THEN ss[1]
    ELSE LET h == Len(ss) \div 2
         IN  Concat(SubSeq(ss, 1, h)) \o Concat(SubSeq(ss, h + 1, Len(ss)))

Range(s) == {s[i] : i \in DOMAIN s}

(***************************************************************************)
(* The matroid collaborator: groundset(), rank(S), flats(r).               *)
(* A matroid on E = 1..n is given by its family of bases.                  *)
(***************************************************************************)
groundset(M) == 1 .. M.n

\* rank(S): the size of a largest independent subset of S
rank(M, S) == Max({Cardinality(B \cap S) : B \in M.bases})

\* rank(): the rank of the whole groundset
full_rank(M) == rank(M, groundset(M))

IsFlat(M, S) == \A x \in groundset(M) \ S : rank(M, S \cup {x}) > rank(M, S)

\* the order in which flats of one rank are enumerated: lexicographic on the
\* sorted element lists (two distinct flats of one rank are never nested)
LexLess(A, B) == A # B /\ Min((A \ B) \cup (B \ A)) \in A

RECURSIVE SortSets(_)
SortSets(S) ==
    IF S = {} THEN <<>>
    ELSE LET m == CHOOSE A \in S : \A B \in S \ {A} : LexLess(A, B)
         IN  <<m>> \o SortSets(S \ {m})

\* flats(r): the flats of rank r, as an ordered collection
flats_of_rank(M, r) ==
    SortSets({S \in SUBSET groundset(M) : IsFlat(M, S) /\ rank(M, S) = r})

IsMatroid(M) ==
    /\ M.bases # {}
    /\ \A A \in M.bases, B \in M.bases :
          \A a \in A \ B : \E b \in B \ A : ((A \ {a}) \cup {b}) \in M.bases

\* [X for i in range(1, rank()) for X in flats(i)]
\* the comprehension with range(0, rank): the flat of rank 0 comes first
proper_flats_from_rank_zero(M) ==
    Concat([i \in 1 .. full_rank(M) |-> flats_of_rank(M, i - 1)])

\* [X for i in range(1, rank()) for X in flats(i)]
proper_flats(M) ==
    Concat([i \in 1 .. (full_rank(M) - 1) |-> flats_of_rank(M, i)])

\* matroids.Uniform(r, n): every r-subset of 1..n is a basis
Uniform(r, n) == [n |-> n, bases |-> {B \in SUBSET (1 .. n) : Cardinality(B) = r}]

Matroids ==
    {M \in UNION {[n : {n}, bases : SUBSET {B \in SUBSET (1 .. n) : Cardinality(B) = r}]
                    : <<n, r>> \in {p \in (1 .. MaxE) \X (0 .. MaxE) : p[2] <= p[1]}} :
        IsMatroid(M) /\ Len(proper_flats(M)) <= MaxFlats}

(***************************************************************************)
(* The polynomial ring substrate: exact arithmetic on polynomials with     *)
(* integer coefficients in nv indeterminates.                              *)
(***************************************************************************)
MOne(nv) == [i \in 1 .. nv |-> 0]

MVar(nv, v) == [i \in 1 .. nv |-> IF i = v THEN 1 ELSE 0]

MMul(a, b) == [i \in DOMAIN a |-> a[i] + b[i]]

MDivides(a, b) == \A i \in DOMAIN a : a[i] <= b[i]

MDiv(b, a) == [i \in DOMAIN a |-> b[i] - a[i]]

MDeg(a) == SumF(a, DOMAIN a)

\* poly_ring.zero()
PZero == [m \in {} |-> 0]

IsZero(p) == DOMAIN p = {}

\* a constant c of the ring
PConst(nv, c) == IF c = 0 THEN PZero ELSE [m \in {MOne(nv)} |-> c]

\* poly_ring.one()
POne(nv) == PConst(nv, 1)

\* poly_ring.gens()[v - 1]
PVar(nv, v) == [m \in {MVar(nv, v)} |-> 1]

Coeff(p, m) == IF m \in DOMAIN p THEN p[m] ELSE 0

PAdd(p, q) ==
    LET D == DOMAIN p \cup DOMAIN q
    IN  [m \in {x \in D : Coeff(p, x) + Coeff(q, x) # 0} |-> Coeff(p, m) + Coeff(q, m)]

PNeg(p) == [m \in DOMAIN p |-> 0 - p[m]]

PSub(p, q) == PAdd(p, PNeg(q))

PMulCoeff(p, q, m) ==
    SumF([a \in DOMAIN p |->
             IF MDivides(a, m) /\ MDiv(m, a) \in DOMAIN q
             THEN p[a] * q[MDiv(m, a)] ELSE 0], DOMAIN p)

\* p * q; the product of two terms is the term on the product of their
\* monomials, any other product collects the coefficient of every monomial
PMul(p, q) ==
    IF Cardinality(DOMAIN p) = 1 /\ Cardinality(DOMAIN q) = 1
    THEN LET a == CHOOSE x \in DOMAIN p : TRUE
             b == CHOOSE x \in DOMAIN q : TRUE
         IN  [m \in {MMul(a, b)} |-> p[a] * q[b]]
    ELSE LET D == {MMul(a, b) : a \in DOMAIN p, b \in DOMAIN q}
         IN  [m \in {x \in D : PMulCoeff(p, q, x) # 0} |-> PMulCoeff(p, q, m)]

RECURSIVE PPow(_, _, _)
\* p ** k
PPow(nv, p, k) == IF k = 0 THEN POne(nv) ELSE PMul(p, PPow(nv, p, k - 1))

RECURSIVE PSum(_)
\* sum of a sequence of polynomials, starting from zero
PSum(ps) == IF ps = <<>> THEN PZero ELSE PAdd(Head(ps), PSum(Tail(ps)))

RECURSIVE PProd(_, _)
\* product of a sequence of polynomials, starting from one
PProd(nv, ps) == IF ps = <<>> THEN POne(nv) ELSE PMul(Head(ps), PProd(nv, Tail(ps)))

(***************************************************************************)
(* The state of one ideal instance.                                        *)
(***************************************************************************)
VARIABLES
    matroid,          \* self._matroid: the matroid the ideal is built from
    kind,             \* the presentation: "nonaug", "fy" or "atom_free"
    pc,               \* "new" before __init__ has run, "ready" after it returned,
                      \* "failed" after it raised
    flats,            \* the proper flats in registry order (self._flats, resp.
                      \* the keys of self._flats_generator)
    flats_generator,  \* self._flats_generator: [elem |-> element -> index of its
                      \* indeterminate, flat |-> flat -> index of its indeterminate]
    ring,             \* self.ring(): [tag, ngens |-> number of indeterminates,
                      \* names |-> their names, in the order of gens()]
    labels,           \* str(x) of every groundset element x, as a list of characters
    gens,             \* self.gens(): the generator sequence given to the ideal
    call,             \* the last public call: [op, args]
    ret               \* what that call returned: [tag, val]

vars == <<matroid, kind, pc, flats, flats_generator, ring, labels, gens, call, ret>>

Kinds == {"nonaug", "fy", "atom_free"}

\* the algorithm selectors a caller passes: the combinatorial one, the
\* fallback one, and one that is neither
Selectors == {"", "constructed", "buchberger"}

\* F < G on frozensets: proper subset
ProperSubset(F, G) == F \subseteq G /\ F # G

\* not (F < G or G < F)
NotNested(F, G) == ~(ProperSubset(F, G) \/ ProperSubset(G, F))

\* self._flats_generator[F] as a ring element
FlatGen(nv, fg, F) == PVar(nv, fg.flat[F])

\* self._flats_generator[x] as a ring element (Feitchner-Yuzvinsky only)
ElemGen(nv, fg, x) == PVar(nv, fg.elem[x])

\* flats_containing[x] as built by the two augmented classes: the flats of fs
\* that contain x, in the order of fs
flats_containing(fs, x) == SelectSeq(fs, LAMBDA F : x \in F)

\* flats_containing[x] as built by the non-augmented class: the positions in fs
\* of the flats that contain x
flats_containing_idx(fs, x) == SelectSeq([i \in DOMAIN fs |-> i], LAMBDA i : x \in fs[i])

\* term = zero; for H in Fs: term += self._flats_generator[H]
sum_flats(nv, fg, Fs) == PSum([k \in DOMAIN Fs |-> FlatGen(nv, fg, Fs[k])])

\* term = zero; for H in fs: if x in H: term += self._flats_generator[H]
SumContaining(nv, fg, fs, x) ==
    PSum([i \in DOMAIN fs |-> IF x \in fs[i] THEN FlatGen(nv, fg, fs[i]) ELSE PZero])

(***************************************************************************)
(* Names of the indeterminates.  A name is the list of its characters.     *)
(***************************************************************************)
DigitChars == <<"0", "1", "2", "3", "4", "5", "6", "7", "8", "9">>

RECURSIVE decimal(_)
\* str(k) of a natural number k
decimal(k) ==
    IF k < 10 THEN <<DigitChars[k + 1]>>
    ELSE decimal(k \div 10) \o <<DigitChars[(k % 10) + 1]>>

\* the characters a variable name may consist of
AlnumChars ==
    Range(DigitChars)
    \cup {"A", "B", "C", "D", "E", "F", "G", "H", "I", "J", "K", "L", "M", "N",
          "O", "P", "Q", "R", "S", "T", "U", "V", "W", "X", "Y", "Z", "_"}

\* the ways the groundset elements 1..n print: as the digits 1, 2, 3, ...,
\* as the numbers 1, 11, 111, ... and as the numbers 1.5, 2.5, 3.5, ...
Labelings(n) ==
    {[x \in 1 .. n |-> decimal(x)],
     [x \in 1 .. n |-> [i \in 1 .. x |-> "1"]],
     [x \in 1 .. n |-> decimal(x) \o <<".", "5">>]}

(***************************************************************************)
(* list(groundset()): the groundset is a frozenset, and a list made of it  *)
(* has its elements in the order of the slots of its hash table.  The      *)
(* element x is the number its label prints.                               *)
(***************************************************************************)
\* the digits of a label before its point
integer_part(label) ==
    LET dots == {k \in DOMAIN label : label[k] = "."}
    IN  IF dots = {} THEN label ELSE SubSeq(label, 1, Min(dots) - 1)

RECURSIVE digits_value(_)
\* int(s) of a string of digits
digits_value(s) ==
    IF s = <<>> THEN 0
    ELSE 10 * digits_value(SubSeq(s, 1, Len(s) - 1))
         + (CHOOSE d \in 0 .. 9 : DigitChars[d + 1] = s[Len(s)])

\* a hash value of 61 bits as its two halves of 30 bits: the record
\* [hi |-> a, lo |-> b] is the integer a * 2^30 + b
hash_word(a, b) == [hi |-> a + (b \div 1073741824), lo |-> b % 1073741824]

\* hash(x) of the element a label prints: hash(k) = k for an integer k, and
\* hash(k + 0.5) = 2^60 + k for the numbers k + 0.5
py_hash(label) ==
    IF \E k \in DOMAIN label : label[k] = "."
    THEN hash_word(1073741824, digits_value(integer_part(label)))
    ELSE hash_word(0, digits_value(integer_part(label)))

\* h >> 5
hash_shift(h) == [hi |-> h.hi \div 32, lo |-> (h.hi % 32) * 33554432 + (h.lo \div 32)]

RECURSIVE set_find_slot(_, _, _, _)
\* the free slot for a key: slot i and, when they fit, the nine slots after
\* it; then perturb >>= 5 and i = (i * 5 + 1 + perturb) & mask (the table
\* size divides 2^30, so the low half of perturb decides the slot)
set_find_slot(table, mask, i, perturb) ==
    LET probes == IF i + 9 <= mask THEN 9 ELSE 0
        free == {k \in i .. (i + probes) : table[k] = 0}
    IN  IF free # {} THEN Min(free)
        ELSE set_find_slot(table, mask,
                           (i * 5 + 1 + hash_shift(perturb).lo) % (mask + 1),
                           hash_shift(perturb))

\* the table with the key x of hash h entered; 0 marks a free slot
set_insert_clean(table, mask, h, x) ==
    [table EXCEPT ![set_find_slot(table, mask, h.lo % (mask + 1), h)] = x]

\* the keys of a table in the order of its slots
set_entries(table, mask) ==
    SelectSeq([k \in 1 .. (mask + 1) |-> table[k - 1]], LAMBDA x : x # 0)

RECURSIVE set_insert_all(_, _, _, _)
set_insert_all(table, mask, hs, xs) ==
    IF xs = <<>> THEN table
    ELSE set_insert_all(set_insert_clean(table, mask, hs[Head(xs)], Head(xs)),
                        mask, hs, Tail(xs))

RECURSIVE set_new_size(_, _)
\* the smallest table size above minused, doubling from size
set_new_size(size, minused) ==
    IF size <= minused THEN set_new_size(2 * size, minused) ELSE size

\* the table after one more key: when it is three fifths full it is rebuilt
\* with more than four slots per key, the keys re-entered in slot order
set_add_entry(so, hs, x) ==
    LET t == set_insert_clean(so.table, so.mask, hs[x], x)
        keys == set_entries(t, so.mask)
    IN  IF Len(keys) * 5 < so.mask * 3 THEN [table |-> t, mask |-> so.mask]
        ELSE LET size == set_new_size(8, Len(keys) * 4)
             IN  [table |-> set_insert_all([k \in 0 .. (size - 1) |-> 0], size - 1, hs, keys),
                  mask |-> size - 1]

RECURSIVE set_update(_, _, _)
set_update(so, hs, xs) ==
    IF xs = <<>> THEN so ELSE set_update(set_add_entry(so, hs, Head(xs)), hs, Tail(xs))

\* list(frozenset(xs)) for keys xs with the hashes hs
frozenset_list(hs, xs) ==
    LET so == set_update([table |-> [k \in 0 .. 7 |-> 0], mask |-> 7], hs, xs)
    IN  set_entries(so.table, so.mask)

\* E = list(self._matroid.groundset())
E_list(M, lab) ==
    frozenset_list([x \in 1 .. M.n |-> py_hash(lab[x])], [i \in 1 .. M.n |-> i])

RECURSIVE sorted_elements(_)
\* sorted(F, key=cmp_elements_key): the elements of F in label order
sorted_elements(F) ==
    IF F = {} THEN <<>>
    ELSE <<Min(F)>> \o sorted_elements(F \ {Min(F)})

\* prefix + ''.join(str(x) for x in sorted(F, key=cmp_elements_key))
flat_name(prefix, lab, F) ==
    LET srt == sorted_elements(F)
    IN  <<prefix>> \o Concat([i \in DOMAIN srt |-> lab[srt[i]]])

\* names taken from the position of the flat in the list instead of its elements
names_flats_by_position(lab, fs) == [i \in DOMAIN fs |-> <<"A">> \o decimal(i - 1)]

\* names of ChowRingIdeal_nonaug and AugmentedChowRingIdeal_atom_free
names_flats_A(lab, fs) == [i \in DOMAIN fs |-> flat_name("A", lab, fs[i])]

\* names_groundset + names_flats of AugmentedChowRingIdeal_fy
names_fy(lab, E, fs) ==
    [i \in DOMAIN E |-> <<"A">> \o lab[E[i]]]
    \o [i \in DOMAIN fs |-> flat_name("B", lab, fs[i])]

\* the ring constructor refuses a name that is not alphanumeric and a name
\* that appears more than once
names_accepted(names) ==
    /\ \A i \in DOMAIN names : \A k \in DOMAIN names[i] : names[i][k] \in AlnumChars
    /\ \A i \in DOMAIN names, j \in DOMAIN names : i # j => names[i] # names[j]

\* PolynomialRing(R, names): the ring, or the ValueError it raises
PolynomialRing_names(names) ==
    IF names_accepted(names)
    THEN [tag |-> "ring", ngens |-> Len(names), names |-> names]
    ELSE [tag |-> "ValueError", ngens |-> 0, names |-> <<>>]

\* PolynomialRing(R, prefix, n): the ring on prefix0 .. prefix(n-1)
PolynomialRing_indexed(prefix, n) ==
    [tag |-> "ring", ngens |-> n, names |-> [i \in 1 .. n |-> <<prefix>> \o decimal(i - 1)]]

\* try: PolynomialRing(R, names) without the except clause
poly_ring_no_except(names, n) == PolynomialRing_names(names)

\* try: PolynomialRing(R, names); except ValueError: PolynomialRing(R, 'A', n)
poly_ring_try(names, n) ==
    IF PolynomialRing_names(names).tag = "ValueError"
    THEN PolynomialRing_indexed("A", n)
    ELSE PolynomialRing_names(names)

\* the ring __init__ builds for the instance
poly_ring_of(k, M, lab, fs) ==
    IF k = "fy"
    THEN poly_ring_try(names_fy(lab, E_list(M, lab), fs), M.n + Len(fs))
    ELSE poly_ring_try(names_flats_A(lab, fs), Len(fs))

(***************************************************************************)
(* ChowRingIdeal_nonaug                                                    *)
(***************************************************************************)
\* dict(zip(flats, gens)): the i-th flat gets the i-th indeterminate
flats_generator_zip(fs) ==
    [elem |-> <<>>, flat |-> [F \in Range(fs) |-> CHOOSE i \in DOMAIN fs : fs[i] = F]]

\* nonaug_Q with the test "F < G" forgotten: only "G < F" excludes a pair
nonaug_Q_no_subset_test(nv, fg, fs) ==
    Concat([i \in DOMAIN fs |->
        Concat([j \in 1 .. (Len(fs) - i) |->
            IF ~ProperSubset(fs[i + j], fs[i])
            THEN <<PMul(PVar(nv, i), PVar(nv, i + j))>>
            ELSE <<>>])])

\* Q: gens[i] * gens[i+j+1] for i, F and every later G not nested with F
nonaug_Q(nv, fg, fs) ==
    Concat([i \in DOMAIN fs |->
        Concat([j \in 1 .. (Len(fs) - i) |->
            IF NotNested(fs[i], fs[i + j])
            THEN <<PMul(PVar(nv, i), PVar(nv, i + j))>>
            ELSE <<>>])])

\* sum(gens[i] for i in flats_containing[x])
nonaug_sum(nv, fs, x) ==
    LET idx == flats_containing_idx(fs, x)
    IN  PSum([k \in DOMAIN idx |-> PVar(nv, idx[k])])

\* nonaug_L with the zero differences left out
nonaug_L_drop_zero(nv, fg, fs, E) ==
    SelectSeq(
        Concat([j \in DOMAIN E |->
            [k \in 1 .. (Len(E) - j) |->
                PSub(nonaug_sum(nv, fs, E[j]), nonaug_sum(nv, fs, E[j + k]))]]),
        LAMBDA p : ~IsZero(p))

\* L: one difference of sums per pair x, y with y after x in E
nonaug_L(nv, fg, fs, E) ==
    Concat([j \in DOMAIN E |->
        [k \in 1 .. (Len(E) - j) |->
            PSub(nonaug_sum(nv, fs, E[j]), nonaug_sum(nv, fs, E[j + k]))]])

gens_constructor_nonaug(M, lab, nv, fg, fs) ==
    nonaug_Q(nv, fg, fs) \o nonaug_L(nv, fg, fs, E_list(M, lab))

(***************************************************************************)
(* AugmentedChowRingIdeal_fy                                               *)
(***************************************************************************)
\* element i of E gets indeterminate i, flat i gets indeterminate len(E) + i
\* the flats take gens()[i] instead of gens()[len(E) + i]
flats_generator_fy_no_offset(M, lab, fs) ==
    LET E == E_list(M, lab)
    IN  [elem |-> [x \in groundset(M) |-> CHOOSE i \in DOMAIN E : E[i] = x],
         flat |-> [F \in Range(fs) |-> CHOOSE i \in DOMAIN fs : fs[i] = F]]

\* for i, x in enumerate(E): gens()[i]; for i, F in enumerate(flats): gens()[len(E) + i]
flats_generator_fy(M, lab, fs) ==
    LET E == E_list(M, lab)
    IN  [elem |-> [x \in groundset(M) |-> CHOOSE i \in DOMAIN E : E[i] = x],
         flat |-> [F \in Range(fs) |-> M.n + (CHOOSE i \in DOMAIN fs : fs[i] = F)]]

\* Q: for F, for G: the product when not (F < G or G < F)
fy_Q(nv, fg, fs) ==
    Concat([i \in DOMAIN fs |->
        Concat([j \in DOMAIN fs |->
            IF NotNested(fs[i], fs[j])
            THEN <<PMul(FlatGen(nv, fg, fs[i]), FlatGen(nv, fg, fs[j]))>>
            ELSE <<>>])])

\* fy_term with the membership test inverted: the flats that contain x
fy_term_containing(nv, fg, fs, x) ==
    PSum([i \in DOMAIN fs |->
            IF fs[i] \in Range(flats_containing(fs, x))
            THEN FlatGen(nv, fg, fs[i]) ELSE PZero])

\* term = zero; for F in self._flats: if F not in flats_containing[x]: term += ...
fy_term(nv, fg, fs, x) ==
    PSum([i \in DOMAIN fs |->
            IF fs[i] \notin Range(flats_containing(fs, x))
            THEN FlatGen(nv, fg, fs[i]) ELSE PZero])

\* L: for x in E: the element's indeterminate minus the flats not containing x
fy_L(nv, fg, fs, E) ==
    [j \in DOMAIN E |-> PSub(ElemGen(nv, fg, E[j]), fy_term(nv, fg, fs, E[j]))]

gens_constructor_fy(M, lab, nv, fg, fs) ==
    fy_Q(nv, fg, fs) \o fy_L(nv, fg, fs, E_list(M, lab))

(***************************************************************************)
(* AugmentedChowRingIdeal_atom_free                                        *)
(***************************************************************************)
\* what the body of "for x in E" appends for the flat F
atom_free_elem(nv, fg, fs, F, x) ==
    <<PPow(nv, sum_flats(nv, fg, flats_containing(fs, x)), 2)>>
    \o (IF F \notin Range(flats_containing(fs, x))
        THEN <<PMul(FlatGen(nv, fg, F), sum_flats(nv, fg, flats_containing(fs, x)))>>
        ELSE <<>>)

\* what the body of "for G in self._flats" appends for the flat F
atom_free_pair(nv, fg, fs, E, F, G) ==
    (IF NotNested(G, F)
     THEN <<PMul(FlatGen(nv, fg, F), FlatGen(nv, fg, G))>>
     ELSE <<>>)
    \o Concat([j \in DOMAIN E |-> atom_free_elem(nv, fg, fs, F, E[j])])

gens_constructor_atom_free(M, lab, nv, fg, fs) ==
    LET E == E_list(M, lab)
    IN  Concat([i \in DOMAIN fs |->
            Concat([j \in DOMAIN fs |-> atom_free_pair(nv, fg, fs, E, fs[i], fs[j])])])

(***************************************************************************)
(* groebner_basis(algorithm): what a call returns.                         *)
(***************************************************************************)
\* a PolynomialSequence(R, [gb])
RetSeq(gb) == [tag |-> "seq", val |-> gb]

\* the method falls off its end: Python returns None
RetNone == [tag |-> "None", val |-> <<>>]

\* flats.remove(frozenset()) when the empty flat is in the list
remove_empty(fs) == SelectSeq(fs, LAMBDA F : F # {})

RECURSIVE combinations(_, _)
\* itertools.combinations(s, r), in its order
combinations(s, r) ==
    IF r = 0 THEN << <<>> >>
    ELSE IF Len(s) < r THEN <<>>
    ELSE LET rest == combinations(Tail(s), r - 1)
         IN  [i \in DOMAIN rest |-> <<Head(s)>> \o rest[i]] \o combinations(Tail(s), r)

\* all subsets of the flats, by increasing size r = 0 .. len(flats)
\* the loop with range(len(flats)): the subset of all the flats is left out
all_subsets_without_full(fs) == Concat([k \in 1 .. Len(fs) |-> combinations(fs, k - 1)])

\* for r in range(len(flats) + 1): subsets.extend(combinations(flats, r))
all_subsets(fs) == Concat([k \in 1 .. (Len(fs) + 1) |-> combinations(fs, k - 1)])

RECURSIVE sorted_by_len(_)
\* sorted(subset, key=len): a stable sort by cardinality
sorted_by_len(s) ==
    IF s = <<>> THEN <<>>
    ELSE LET t == sorted_by_len(Tail(s))
             x == Head(s)
             before == {i \in DOMAIN t : \A k \in 1 .. i : Cardinality(t[k]) < Cardinality(x)}
             n == Cardinality(before)
         IN  SubSeq(t, 1, n) \o <<x>> \o SubSeq(t, n + 1, Len(t))

\* the sum over the flats G of fs with G > F: the flat F itself left out
SumAbove_without_self(nv, fg, fs, F) ==
    PSum([i \in DOMAIN fs |->
            IF F \subseteq fs[i] /\ F # fs[i] THEN FlatGen(nv, fg, fs[i]) ELSE PZero])

\* the sum of the indeterminates of the flats G of fs with G >= F
SumAbove(nv, fg, fs, F) ==
    PSum([i \in DOMAIN fs |-> IF F \subseteq fs[i] THEN FlatGen(nv, fg, fs[i]) ELSE PZero])

\* the sum of the indeterminates of the flats H of fs with H > G
SumStrictlyAbove(nv, fg, fs, G) ==
    PSum([i \in DOMAIN fs |-> IF ProperSubset(G, fs[i]) THEN FlatGen(nv, fg, fs[i]) ELSE PZero])

\* the sum of the indeterminates of the flats H of fs with H < F
SumStrictlyBelow(nv, fg, fs, F) ==
    PSum([i \in DOMAIN fs |-> IF ProperSubset(fs[i], F) THEN FlatGen(nv, fg, fs[i]) ELSE PZero])

\* the product stopped after its first factor
subset_first_factor(nv, fg, subset) ==
    IF subset = <<>> THEN POne(nv) ELSE FlatGen(nv, fg, subset[1])

\* term = one; for x in subset: term *= flats_gen[x]
subset_product(nv, fg, subset) ==
    PProd(nv, [i \in DOMAIN subset |-> FlatGen(nv, fg, subset[i])])

\* the first loop without its comparison of cardinalities: any neighbour
\* clears the flag
has_neighbours(sorted_list) == \E i \in DOMAIN sorted_list : i # 1

\* first loop over sorted_list: two neighbours of equal cardinality clear the flag
has_equal_len_neighbours(sorted_list) ==
    \E i \in DOMAIN sorted_list :
        i # 1 /\ Cardinality(sorted_list[i]) = Cardinality(sorted_list[i - 1])

\* the second loop never clears the flag
has_nested_members_never(sorted_list) == FALSE

\* second loop over sorted_list: an earlier member strictly inside a later one
\* clears the flag
has_nested_members(sorted_list) ==
    \E j \in DOMAIN sorted_list : \E k \in (j + 1) .. Len(sorted_list) :
        sorted_list[j] # sorted_list[k] /\ sorted_list[j] \subseteq sorted_list[k]

\* what one subset of the flats appends to gb (non-augmented engine)
nonaug_contribution(M, nv, fg, fs, subset) ==
    LET sorted_list == sorted_by_len(subset)
    IN  IF has_equal_len_neighbours(sorted_list)
        THEN <<subset_product(nv, fg, subset)>>
        ELSE IF subset = <<>>
        THEN [i \in DOMAIN fs |-> PPow(nv, SumAbove(nv, fg, fs, fs[i]), rank(M, fs[i]))]
        ELSE IF has_nested_members(sorted_list)
        THEN <<>>
        ELSE Concat([i \in DOMAIN fs |->
                IF ProperSubset(UNION Range(sorted_list), fs[i])
                   /\ ~IsZero(SumAbove(nv, fg, fs, fs[i]))
                THEN <<PMul(subset_product(nv, fg, subset),
                            PPow(nv, SumAbove(nv, fg, fs, fs[i]),
                                 rank(M, fs[i]) - rank(M, sorted_list[Len(subset)])))>>
                ELSE <<>>])

nonaug_gb(M, nv, fg, fs) ==
    LET fl == remove_empty(fs)
        subsets == all_subsets(fl)
    IN  Concat([i \in DOMAIN subsets |-> nonaug_contribution(M, nv, fg, fl, subsets[i])])

groebner_basis_nonaug(M, nv, fg, fs, algorithm) ==
    IF algorithm = "" THEN RetSeq(nonaug_gb(M, nv, fg, fs))
    ELSE RetNone

\* what the body of "for i in E" appends for the flats F, G (Feitchner-Yuzvinsky)
fy_elem_contribution(M, nv, fg, fs, F, G, i) ==
    LET term == SumContaining(nv, fg, fs, i)
        term1 == SumStrictlyAbove(nv, fg, fs, G)
    IN  (IF ~IsZero(term) THEN <<PAdd(ElemGen(nv, fg, i), term)>> ELSE <<>>)
        \o (IF ~IsZero(term1)
            THEN <<PAdd(PPow(nv, term1, rank(M, G)), POne(nv))>> ELSE <<>>)
        \o (IF i \in G
            THEN (IF ~IsZero(term1)
                  THEN <<PMul(ElemGen(nv, fg, i), PPow(nv, term1, rank(M, G)))>>
                  ELSE <<>>)
            ELSE IF ~(i \in G)
            THEN <<PMul(ElemGen(nv, fg, i), FlatGen(nv, fg, F))>>
            ELSE IF ProperSubset(G, F)
            THEN <<PMul(FlatGen(nv, fg, G), PPow(nv, term1, rank(M, F) - rank(M, G)))>>
            ELSE <<>>)

\* the body of "for G in self._flats" with the product for F # G only
fy_pair_contribution_distinct(M, nv, fg, fs, E, F, G) ==
    (IF NotNested(F, G) /\ F # G
     THEN <<PMul(FlatGen(nv, fg, F), FlatGen(nv, fg, G))>>
     ELSE <<>>)
    \o Concat([j \in DOMAIN E |-> fy_elem_contribution(M, nv, fg, fs, F, G, E[j])])

\* what the body of "for G in self._flats" appends for the flat F
fy_pair_contribution(M, nv, fg, fs, E, F, G) ==
    (IF NotNested(F, G)
     THEN <<PMul(FlatGen(nv, fg, F), FlatGen(nv, fg, G))>>
     ELSE <<>>)
    \o Concat([j \in DOMAIN E |-> fy_elem_contribution(M, nv, fg, fs, F, G, E[j])])

fy_gb(M, lab, nv, fg, fs) ==
    LET E == E_list(M, lab)
    IN  Concat([i \in DOMAIN fs |->
            Concat([j \in DOMAIN fs |->
                fy_pair_contribution(M, nv, fg, fs, E, fs[i], fs[j])])])

groebner_basis_fy(M, lab, nv, fg, fs, algorithm) ==
    IF algorithm = "" THEN RetSeq(fy_gb(M, lab, nv, fg, fs))
    ELSE RetNone

\* the body of "for G in flats" without the test "term != 0"
atom_free_contribution_unguarded(M, nv, fg, fl, F, G) ==
    LET term == SumStrictlyBelow(nv, fg, fl, F)
    IN  IF NotNested(F, G)
        THEN <<PMul(FlatGen(nv, fg, F), FlatGen(nv, fg, G))>>
        ELSE IF ProperSubset(F, G)
        THEN <<PMul(PMul(FlatGen(nv, fg, F), PPow(nv, term, rank(M, G))),
                    PPow(nv, term, rank(M, G) - rank(M, F)))>>
        ELSE <<>>

\* what the body of "for G in flats" appends for the flat F (atom-free)
atom_free_contribution(M, nv, fg, fl, F, G) ==
    LET term == SumStrictlyBelow(nv, fg, fl, F)
    IN  IF NotNested(F, G)
        THEN <<PMul(FlatGen(nv, fg, F), FlatGen(nv, fg, G))>>
        ELSE IF ProperSubset(F, G) /\ ~IsZero(term)
        THEN <<PMul(PMul(FlatGen(nv, fg, F), PPow(nv, term, rank(M, G))),
                    PPow(nv, term, rank(M, G) - rank(M, F)))>>
        ELSE <<>>

\* the double loop over the flats with the pairs F = G left out
atom_free_gb_distinct(M, nv, fg) ==
    LET fl == remove_empty(proper_flats(M))
    IN  Concat([i \in DOMAIN fl |->
            Concat([j \in DOMAIN fl |->
                IF i = j THEN <<>>
                ELSE atom_free_contribution(M, nv, fg, fl, fl[i], fl[j])])])

atom_free_gb(M, nv, fg) ==
    LET fl == remove_empty(proper_flats(M))
    IN  Concat([i \in DOMAIN fl |->
            Concat([j \in DOMAIN fl |-> atom_free_contribution(M, nv, fg, fl, fl[i], fl[j])])])

groebner_basis_atom_free(M, nv, fg, algorithm) ==
    IF algorithm = "" THEN RetSeq(atom_free_gb(M, nv, fg))
    ELSE RetNone

(***************************************************************************)
(* The operations of an instance.                                          *)
(***************************************************************************)
\* an instance about to be built from one of the matroids Ms
InitFrom(Ms) ==
    /\ matroid \in Ms
    /\ kind \in Kinds
    /\ pc = "new"
    /\ flats = <<>>
    /\ flats_generator = [elem |-> <<>>, flat |-> <<>>]
    /\ ring = [tag |-> "none", ngens |-> 0, names |-> <<>>]
    /\ labels \in Labelings(matroid.n)
    /\ gens = <<>>
    /\ call = [op |-> "none", args |-> <<>>]
    /\ ret = RetNone

Init == InitFrom(Matroids)

\* __init__(M, R) of the three classes
Construct ==
    /\ pc = "new"
    /\ call' = [op |-> "__init__", args |-> <<>>]
    /\ LET fs == proper_flats(matroid)
           poly_ring == poly_ring_of(kind, matroid, labels, fs)
           nv == poly_ring.ngens
           fg == IF kind = "fy" THEN flats_generator_fy(matroid, labels, fs)
                 ELSE flats_generator_zip(fs)
       IN  IF poly_ring.tag = "ring"
           THEN /\ flats' = fs
                /\ ring' = poly_ring
                /\ flats_generator' = fg
                /\ gens' = CASE kind = "nonaug" -> gens_constructor_nonaug(matroid, labels, nv, fg, fs)
                             [] kind = "fy" -> gens_constructor_fy(matroid, labels, nv, fg, fs)
                             [] kind = "atom_free" ->
                                    gens_constructor_atom_free(matroid, labels, nv, fg, fs)
                /\ pc' = "ready"
                /\ ret' = RetNone
           ELSE \* the exception leaves __init__
                /\ pc' = "failed"
                /\ ret' = [tag |-> poly_ring.tag, val |-> <<>>]
                /\ UNCHANGED <<flats, ring, flats_generator, gens>>
    /\ UNCHANGED <<matroid, kind, labels>>

\* the value groebner_basis(algorithm) returns on the current instance
groebner_basis(algorithm) ==
    CASE kind = "nonaug" ->
            groebner_basis_nonaug(matroid, ring.ngens, flats_generator, flats, algorithm)
      [] kind = "fy" ->
            groebner_basis_fy(matroid, labels, ring.ngens, flats_generator, flats, algorithm)
      [] kind = "atom_free" ->
            groebner_basis_atom_free(matroid, ring.ngens, flats_generator, algorithm)

\* groebner_basis(algorithm=a)
GroebnerBasis(a) ==
    /\ pc = "ready"
    /\ call' = [op |-> "groebner_basis", args |-> <<a>>]
    /\ ret' = groebner_basis(a)
    /\ UNCHANGED <<matroid, kind, pc, flats, flats_generator, ring, labels, gens>>

\* groebner_basis(): the parameter takes its default, 'constructed'
GroebnerBasisDefault ==
    /\ pc = "ready"
    /\ call' = [op |-> "groebner_basis", args |-> <<>>]
    /\ ret' = groebner_basis("constructed")
    /\ UNCHANGED <<matroid, kind, pc, flats, flats_generator, ring, labels, gens>>

\* the body of ChowRingIdeal.matroid: M = self._matroid; return M
matroid_body(M) == [tag |-> "Matroid", val |-> M]

\* @abstract_method: looking up, on an instance, a method that is declared
\* abstract and that the class of the instance does not override raises
abstract_method(f) == [tag |-> "NotImplementedError", val |-> <<>>]

\* the value ideal.matroid() produces; no class of the module overrides it
matroid_method(M) == abstract_method(matroid_body(M))

\* matroid()
MatroidCall ==
    /\ pc = "ready"
    /\ call' = [op |-> "matroid", args |-> <<>>]
    /\ ret' = matroid_method(matroid)
    /\ UNCHANGED <<matroid, kind, pc, flats, flats_generator, ring, labels, gens>>

\* dict(d): a new dictionary with the entries of d
dict_copy(d) == [tag |-> "dict", val |-> d]

\* the dictionary of the instance itself, not a copy of it
flats_generator_no_copy(fg) == [tag |-> "self._flats_generator", val |-> fg]

\* the value flats_generator() returns
flats_generator_method(fg) == dict_copy(fg)

\* flats_generator()
FlatsGenerator ==
    /\ pc = "ready"
    /\ call' = [op |-> "flats_generator", args |-> <<>>]
    /\ ret' = flats_generator_method(flats_generator)
    /\ UNCHANGED <<matroid, kind, pc, flats, flats_generator, ring, labels, gens>>

\* for k in d: d[k] = v
overwrite_all(d, v) ==
    [elem |-> [x \in DOMAIN d.elem |-> v], flat |-> [F \in DOMAIN d.flat |-> v]]

\* the caller overwrites every entry of the mapping that flats_generator()
\* has just returned with the first or with the last indeterminate; the
\* dictionary of the instance changes with it exactly when the two are the
\* same object
MutateReturned ==
    /\ pc = "ready"
    /\ call.op = "flats_generator"
    /\ \E v \in {1, ring.ngens} :
          LET d == overwrite_all(ret.val, v)
          IN  /\ v >= 1
              /\ d # ret.val
              /\ ret' = [ret EXCEPT !.val = d]
              /\ flats_generator' = IF ret.tag = "dict" THEN flats_generator ELSE d
    /\ call' = [op |-> "mutate", args |-> <<>>]
    /\ UNCHANGED <<matroid, kind, pc, flats, ring, labels, gens>>

Next ==
    \/ Construct
    \/ \E a \in Selectors : GroebnerBasis(a)
    \/ GroebnerBasisDefault
    \/ MatroidCall
    \/ FlatsGenerator
    \/ MutateReturned

Spec == Init /\ [][Next]_vars

\* the uniform matroids of rank 2 on 2 .. MaxUniform elements
UniformRank2 == {Uniform(2, n) : n \in 2 .. MaxUniform}

\* the instances of Spec and those built from a uniform matroid of rank 2
InitAll == InitFrom(Matroids \cup UniformRank2)

SpecAll == InitAll /\ [][Next]_vars

\* the free matroid of rank 4, every flat of which is a subset of {1, 2, 3, 4}
FreeRank4 == Uniform(4, 4)

\* the rank-3 matroid on {1, .., 5} in which 1, 2, 3, 4 lie on a line, 2 and 3
\* are parallel and 5 is off the line; its flats of rank 1 are {1}, {2, 3},
\* {4}, {5} and the line {1, 2, 3, 4} is one of its flats of rank 2
ParallelOnLine ==
    [n |-> 5,
     bases |-> {{1, 2, 5}, {1, 3, 5}, {1, 4, 5}, {2, 4, 5}, {3, 4, 5}}]

\* two matroids with flats above the union of several flats
DeepMatroids == {FreeRank4, ParallelOnLine}

\* the elements of FreeRank4 print as digits; those of ParallelOnLine in
\* every way of Labelings
InitDeep ==
    /\ InitFrom(DeepMatroids)
    /\ matroid = FreeRank4 => labels = [x \in 1 .. matroid.n |-> decimal(x)]

SpecDeep == InitDeep /\ [][Next]_vars

(***************************************************************************)
(* The generic verifier of the substrate: PolynomialSequence.is_groebner() *)
(* in the ring's default term order (degree reverse lexicographic, with    *)
(* the indeterminates ordered as poly_ring.gens()).  Buchberger's          *)
(* criterion: every S-polynomial of two members reduces to zero modulo the *)
(* sequence.  Reduction cross-multiplies by leading coefficients, which    *)
(* keeps the arithmetic in the integers and does not change whether the    *)
(* remainder is zero.                                                      *)
(***************************************************************************)
\* a < b in degrevlex
MLess(a, b) ==
    \/ MDeg(a) < MDeg(b)
    \/ /\ MDeg(a) = MDeg(b)
       /\ a # b
       /\ LET i == Max({j \in DOMAIN a : a[j] # b[j]}) IN a[i] > b[i]

\* the leading monomial of a non-zero polynomial
LM(p) == CHOOSE m \in DOMAIN p : \A m2 \in DOMAIN p : m2 = m \/ MLess(m2, m)

\* the leading coefficient of a non-zero polynomial
LC(p) == p[LM(p)]

MLcm(a, b) == [i \in DOMAIN a |-> IF a[i] >= b[i] THEN a[i] ELSE b[i]]

\* c * x^m * p
PScale(p, c, m) == [k \in {MMul(m, a) : a \in DOMAIN p} |-> c * p[MDiv(k, m)]]

\* the S-polynomial of f and g, up to a non-zero constant factor
SPoly(f, g) ==
    LET l == MLcm(LM(f), LM(g))
    IN  PSub(PScale(f, LC(g), MDiv(l, LM(f))), PScale(g, LC(f), MDiv(l, LM(g))))

RECURSIVE ReducesToZero(_, _)
\* does p reduce to zero modulo the set G of non-zero polynomials?
ReducesToZero(p, G) ==
    IF IsZero(p) THEN TRUE
    ELSE LET m == LM(p)
             D == {g \in G : MDivides(LM(g), m)}
         IN  IF D = {} THEN FALSE
             ELSE LET g == CHOOSE h \in D : TRUE
                  IN  ReducesToZero(
                          PSub(PScale(p, LC(g), MOne(Len(m))),
                               PScale(g, p[m], MDiv(m, LM(g)))), G)

\* PolynomialSequence.is_groebner()
is_groebner(seq) ==
    LET G == {g \in Range(seq) : ~IsZero(g)}
    IN  \A f \in G : \A g \in G : ReducesToZero(SPoly(f, g), G)

(***************************************************************************)
(* Vocabulary of the properties.                                           *)
(***************************************************************************)
Ready == pc = "ready"

\* the last call was groebner_basis(algorithm='')
CombinatorialCall == call.op = "groebner_basis" /\ call.args = <<"">>

\* the last call asked for the fallback: algorithm='constructed' or no argument
FallbackCall ==
    call.op = "groebner_basis" /\ (call.args = <<"constructed">> \/ call.args = <<>>)

\* the last call passed a selector that is neither '' nor 'constructed'
UnsupportedCall ==
    /\ call.op = "groebner_basis"
    /\ Len(call.args) = 1
    /\ call.args[1] \notin {"", "constructed"}

\* the indeterminate x_F of a proper flat F
XF(F) == PVar(ring.ngens, flats_generator.flat[F])

\* the indeterminate y_x of a groundset element x (Feitchner-Yuzvinsky)
YE(x) == PVar(ring.ngens, flats_generator.elem[x])

\* the sum of x_F over a set Fs of proper flats
XSum(Fs) == [m \in {MVar(ring.ngens, flats_generator.flat[F]) : F \in Fs} |-> 1]

ProperFlats == Range(flats)

FlatsWith(x) == {F \in ProperFlats : x \in F}

FlatsWithout(x) == {F \in ProperFlats : x \notin F}

\* brute-force scan: neither flat contains the other
Incomparable(F, G) == ~(F \subseteq G) /\ ~(G \subseteq F)

\* the unordered pairs {F, G} of incomparable proper flats
IncomparablePairs ==
    {pr \in SUBSET ProperFlats :
        Cardinality(pr) = 2 /\ \A F \in pr, G \in pr : F # G => Incomparable(F, G)}

\* x_F * x_G for an unordered pair {F, G}
PairProduct(pr) ==
    LET F == CHOOSE A \in pr : TRUE
        G == CHOOSE B \in pr \ {F} : TRUE
    IN  PMul(XF(F), XF(G))

\* a non-zero polynomial all of whose monomials have degree 2
IsQuadratic(p) == ~IsZero(p) /\ \A m \in DOMAIN p : MDeg(m) = 2

\* the positions of the quadratic generators
QuadraticIdx == {i \in DOMAIN gens : IsQuadratic(gens[i])}

(***************************************************************************)
(* C1.  groebner_basis(algorithm='') and the generator sequence generate   *)
(* the same ideal.  Two sequences that generate the same ideal are sent to *)
(* zero by the same ring homomorphisms; the homomorphisms used are         *)
(* R[x_1..x_nv] -> R[t]/(t^2), x_v |-> c_v * t, for every weight vector c  *)
(* with entries 0 or 1: the image of p is (constant term of p) +           *)
(* (sum of c_v * coefficient of x_v in p) * t.                             *)
(***************************************************************************)
Weights == [1 .. ring.ngens -> {0, 1}]

HomImage(p, c) ==
    <<Coeff(p, MOne(ring.ngens)),
      SumF([v \in 1 .. ring.ngens |-> c[v] * Coeff(p, MVar(ring.ngens, v))],
           1 .. ring.ngens)>>

Annihilates(c, seq) == \A i \in DOMAIN seq : HomImage(seq[i], c) = <<0, 0>>

\* C1: the basis returned by groebner_basis(algorithm='') and the sequence
\* built by _gens_constructor generate the same ideal, for each presentation:
\* every homomorphism that kills one of the two sequences kills the other
\* (stated for the matroids that have proper flats).
C1_SameIdeal ==
    (CombinatorialCall /\ flats # <<>>) =>
        \A c \in Weights : Annihilates(c, gens) <=> Annihilates(c, ret.val)

\* C2: the sequence returned by groebner_basis(algorithm='') is a Groebner
\* basis, for each of the three presentations: is_groebner() is True on it.
C2_IsGroebner == CombinatorialCall => is_groebner(ret.val)

\* C3: in the non-augmented presentation the quadratic generators are exactly
\* one product x_F*x_G per unordered pair of incomparable proper flats: their
\* number is the brute-force count of such pairs, every pair's product occurs
\* exactly once, and every quadratic generator is the product of such a pair
\* (so no comparable pair and no square occurs).
C3_QuadraticGenerators ==
    (Ready /\ kind = "nonaug") =>
        /\ Cardinality(QuadraticIdx) = Cardinality(IncomparablePairs)
        /\ \A pr \in IncomparablePairs :
              Cardinality({i \in QuadraticIdx : gens[i] = PairProduct(pr)}) = 1
        /\ \A i \in QuadraticIdx : \E pr \in IncomparablePairs : gens[i] = PairProduct(pr)

\* an instance with incomparable and with nested proper flats has been built
C3_Witness ==
    /\ Ready /\ kind = "nonaug"
    /\ IncomparablePairs # {}
    /\ \E F \in ProperFlats, G \in ProperFlats : F # G /\ F \subseteq G
    /\ QuadraticIdx # {}

\* the pairs (x, y) of groundset elements with x before y in the order in
\* which the groundset is iterated
ElementPairs ==
    LET E == E_list(matroid, labels)
    IN  {<<E[p[1]], E[p[2]]>> : p \in {q \in (DOMAIN E) \X (DOMAIN E) : q[1] < q[2]}}

\* (sum of x_F over the flats containing x) - (the same for y)
LinearForm(pr) == PSub(XSum(FlatsWith(pr[1])), XSum(FlatsWith(pr[2])))

\* the positions after the quadratic generators of the non-augmented sequence
NonaugTail == (Cardinality(IncomparablePairs) + 1) .. Len(gens)

\* C4: in the non-augmented presentation the linear generators are one per
\* unordered pair of distinct groundset elements, each the difference of the
\* two sums over the flats containing the element; there are C(|E|, 2) of
\* them, zero and repeated ones included, and they follow the quadratic ones.
C4_LinearGenerators ==
    (Ready /\ kind = "nonaug") =>
        LET n == Cardinality(groundset(matroid))
            k == Cardinality(IncomparablePairs)
        IN  /\ Len(gens) = k + (n * (n - 1)) \div 2
            /\ \A i \in 1 .. k : IsQuadratic(gens[i])
            /\ \A i \in NonaugTail : \E pr \in ElementPairs : gens[i] = LinearForm(pr)
            /\ \A pr \in ElementPairs :
                  Cardinality({i \in NonaugTail : gens[i] = LinearForm(pr)})
                      = Cardinality({q \in ElementPairs : LinearForm(q) = LinearForm(pr)})

\* a built instance whose linear generators contain a zero and a repetition,
\* after at least one quadratic generator
C4_Witness ==
    /\ Ready /\ kind = "nonaug"
    /\ IncomparablePairs # {}
    /\ \E i \in NonaugTail : IsZero(gens[i])
    /\ \E i \in NonaugTail, j \in NonaugTail : i # j /\ gens[i] = gens[j]

\* C5: in the Feitchner-Yuzvinsky presentation every quadratic generator is
\* the product x_F*x_G of two incomparable proper flats, every incomparable
\* pair has such a generator, and no generator is a square x_F^2.
C5_FyQuadraticGenerators ==
    (Ready /\ kind = "fy") =>
        /\ \A i \in QuadraticIdx : \E pr \in IncomparablePairs : gens[i] = PairProduct(pr)
        /\ \A pr \in IncomparablePairs : \E i \in QuadraticIdx : gens[i] = PairProduct(pr)
        /\ \A F \in ProperFlats : \A i \in DOMAIN gens : gens[i] # PMul(XF(F), XF(F))

\* y_x - (sum of x_F over the proper flats not containing x)
FyLinearForm(x) == PSub(YE(x), XSum(FlatsWithout(x)))

\* C6: in the Feitchner-Yuzvinsky presentation the builder produces exactly
\* one linear generator per groundset element x, equal to y_x minus the sum
\* of x_F over the proper flats not containing x, and these |E| generators
\* come after the quadratic ones.
C6_FyLinearGenerators ==
    (Ready /\ kind = "fy") =>
        LET n == Cardinality(groundset(matroid))
            q == Len(gens) - n
        IN  /\ q >= 0
            /\ \A i \in 1 .. q : IsQuadratic(gens[i])
            /\ \A i \in (q + 1) .. Len(gens) :
                  \E x \in groundset(matroid) : gens[i] = FyLinearForm(x)
            /\ \A x \in groundset(matroid) :
                  Cardinality({i \in DOMAIN gens : gens[i] = FyLinearForm(x)}) = 1

\* a built Feitchner-Yuzvinsky instance with quadratic generators and an
\* element that lies in some proper flat and outside another
C6_Witness ==
    /\ Ready /\ kind = "fy"
    /\ QuadraticIdx # {}
    /\ \E x \in groundset(matroid) : FlatsWith(x) # {} /\ FlatsWithout(x) # {}

\* C7: the Feitchner-Yuzvinsky generator sequence contains y_i*x_F for every
\* groundset element i and every proper flat F with i not in F.
C7_FyElementFlatProducts ==
    (Ready /\ kind = "fy") =>
        \A i \in groundset(matroid) : \A F \in FlatsWithout(i) :
            PMul(YE(i), XF(F)) \in Range(gens)

\* the three families of atom-free generators
AtomFreeFamilies ==
    {PairProduct(pr) : pr \in IncomparablePairs}
    \cup {PMul(XSum(FlatsWith(x)), XSum(FlatsWith(x))) : x \in groundset(matroid)}
    \cup {PMul(XF(pr[1]), XSum(FlatsWith(pr[2]))) :
            pr \in {q \in ProperFlats \X groundset(matroid) : q[2] \notin q[1]}}

\* C8: in the atom-free presentation the distinct polynomials of the generator
\* sequence are exactly x_F*x_G for incomparable F, G, (sum of x_H, H containing
\* x)^2 for every element x, and x_F*(sum of x_H, H containing x) for x not in
\* F, and nothing else (the zero polynomial apart, which generates nothing).
C8_AtomFreeGenerators ==
    (Ready /\ kind = "atom_free") =>
        Range(gens) \ {PZero} = AtomFreeFamilies \ {PZero}

\* C9: groebner_basis(algorithm='constructed'), also the default, returns a
\* polynomial sequence (the generic Groebner basis), never None.
C9_FallbackReturnsBasis == FallbackCall => ret.tag = "seq"

\* C10: groebner_basis with a selector that is neither '' nor 'constructed'
\* fails with an invalid-argument error and never returns normally.
C10_UnsupportedSelectorFails == UnsupportedCall => ret.tag = "error"

\* the last call was matroid()
MatroidCalled == call.op = "matroid"

\* C11: matroid() on an instance of any of the three classes returns the
\* matroid the instance was constructed from; it does not fail, whatever
\* operations came before it.
C11_MatroidReturned == MatroidCalled => (ret.tag = "Matroid" /\ ret.val = matroid)

\* __init__ has been called and has returned or raised
Constructed == pc # "new"

\* C12: constructing any of the three ideals from a matroid of rank <= 0
\* fails with an error, before any generator is built.
C12_RankZeroFails ==
    (Constructed /\ full_rank(matroid) <= 0) => (pc = "failed" /\ gens = <<>>)

\* every entry of the generator sequence is the zero polynomial
GensTrivial == \A i \in DOMAIN gens : IsZero(gens[i])

\* C13: for a matroid of rank <= 1 construction of each of the three
\* presentations succeeds, there is no proper flat, and no generator of any
\* presentation is a non-zero polynomial.
C13_RankOneTrivial ==
    (Constructed /\ full_rank(matroid) <= 1) =>
        (Ready /\ flats = <<>> /\ GensTrivial)

\* the flats of rank 1 .. rank(M) - 1, found by scanning every subset
FlatsOfProperRank ==
    {S \in SUBSET groundset(matroid) :
        /\ IsFlat(matroid, S)
        /\ rank(matroid, S) >= 1
        /\ rank(matroid, S) <= full_rank(matroid) - 1}

\* the flats that have an indeterminate
RegistryFlats == DOMAIN flats_generator.flat

\* C14: after construction the flats with an indeterminate are exactly the
\* flats of rank 1 .. rank(M) - 1; the flat list holds each of them once, in
\* non-decreasing rank; each is a non-empty proper subset of the groundset,
\* so the flat of rank 0 and the groundset have no indeterminate.
C14_ProperFlats ==
    Ready =>
        /\ RegistryFlats = FlatsOfProperRank
        /\ Range(flats) = FlatsOfProperRank
        /\ Len(flats) = Cardinality(FlatsOfProperRank)
        /\ \A i \in DOMAIN flats, j \in DOMAIN flats :
              i < j => rank(matroid, flats[i]) <= rank(matroid, flats[j])
        /\ \A F \in RegistryFlats :
              F # {} /\ F # groundset(matroid) /\ rank(matroid, F) # 0

\* an instance whose flat list holds flats of rank 1 and of rank 2
C14_Witness ==
    /\ Ready
    /\ \E i \in DOMAIN flats : rank(matroid, flats[i]) = 1
    /\ \E i \in DOMAIN flats : rank(matroid, flats[i]) = 2

\* the names built from the labels: 'A' + the labels of a flat (and, in the
\* Feitchner-Yuzvinsky presentation, 'A' + label of an element, 'B' + labels
\* of a flat)
ReadableNames ==
    LET fs == proper_flats(matroid)
        E == E_list(matroid, labels)
    IN  IF kind = "fy"
        THEN [i \in DOMAIN E |-> <<"A">> \o labels[E[i]]]
             \o [i \in DOMAIN fs |-> flat_name("B", labels, fs[i])]
        ELSE [i \in DOMAIN fs |-> flat_name("A", labels, fs[i])]

\* the ring carries the names built from the labels
UsesReadableNames == ring.names = ReadableNames

\* the ring carries the positional names A0, A1, ...
UsesPositionalNames ==
    ring.names = [i \in 1 .. ring.ngens |-> <<"A">> \o decimal(i - 1)]

\* the indeterminates that some flat or some element is mapped to
RegistryImage ==
    {flats_generator.flat[F] : F \in DOMAIN flats_generator.flat}
    \cup {flats_generator.elem[x] : x \in DOMAIN flats_generator.elem}

\* C15: after construction the flat-to-variable mapping is a bijection onto
\* the indeterminates of the ring: every proper flat, and in the
\* Feitchner-Yuzvinsky presentation every groundset element, has one
\* indeterminate, distinct labels have distinct indeterminates, the ring has
\* |flats| variables (|E| + |flats| for Feitchner-Yuzvinsky) with pairwise
\* distinct names, whether the names are the readable or the positional ones.
C15_RegistryBijection ==
    Ready =>
        /\ DOMAIN flats_generator.flat = Range(flats)
        /\ DOMAIN flats_generator.elem = (IF kind = "fy" THEN groundset(matroid) ELSE {})
        /\ \A F \in DOMAIN flats_generator.flat, G \in DOMAIN flats_generator.flat :
              F # G => flats_generator.flat[F] # flats_generator.flat[G]
        /\ \A x \in DOMAIN flats_generator.elem, y \in DOMAIN flats_generator.elem :
              x # y => flats_generator.elem[x] # flats_generator.elem[y]
        /\ \A F \in DOMAIN flats_generator.flat, x \in DOMAIN flats_generator.elem :
              flats_generator.flat[F] # flats_generator.elem[x]
        /\ RegistryImage = 1 .. ring.ngens
        /\ ring.ngens = (IF kind = "fy" THEN matroid.n ELSE 0) + Cardinality(Range(flats))
        /\ Len(ring.names) = ring.ngens
        /\ \A i \in DOMAIN ring.names, j \in DOMAIN ring.names :
              i # j => ring.names[i] # ring.names[j]
        /\ UsesReadableNames \/ UsesPositionalNames

\* a Feitchner-Yuzvinsky instance with at least two flats whose ring has the
\* positional names
C15_Witness ==
    /\ Ready
    /\ kind = "fy"
    /\ Len(flats) >= 2
    /\ UsesPositionalNames
    /\ ~UsesReadableNames

\* a readable name holds a character that no variable name may hold
InvalidName ==
    LET names == ReadableNames
    IN  \E i \in DOMAIN names : \E k \in DOMAIN names[i] : names[i][k] \notin AlnumChars

\* two labels yield the same readable name
DuplicateName ==
    LET names == ReadableNames
    IN  \E i \in DOMAIN names, j \in DOMAIN names : i # j /\ names[i] = names[j]

\* C16: when the ring cannot be built from the readable names (a name is not
\* a valid identifier, or two labels yield the same name), the constructor
\* builds it with the positional names; no error reaches the caller and the
\* construction completes.
C16_NameFallback ==
    (Constructed /\ (InvalidName \/ DuplicateName)) =>
        /\ Ready
        /\ ret.tag # "ValueError"
        /\ UsesPositionalNames
        /\ Len(ring.names) = (IF kind = "fy" THEN matroid.n ELSE 0) + Len(flats)

\* an instance built although two of its flats have the same readable name,
\* every character of which is valid
C16_Witness ==
    /\ Ready
    /\ DuplicateName
    /\ ~InvalidName
    /\ UsesPositionalNames
    /\ Len(flats) >= 2

\* what groebner_basis(algorithm='') returns on the registry that the
\* constructor builds from the matroid
ConstructedBasis ==
    LET fs == proper_flats(matroid)
        nv == (IF kind = "fy" THEN matroid.n ELSE 0) + Len(fs)
        fg == IF kind = "fy" THEN flats_generator_fy(matroid, labels, fs)
              ELSE flats_generator_zip(fs)
    IN  CASE kind = "nonaug" -> groebner_basis_nonaug(matroid, nv, fg, fs, "")
          [] kind = "fy" -> groebner_basis_fy(matroid, labels, nv, fg, fs, "")
          [] kind = "atom_free" -> groebner_basis_atom_free(matroid, nv, fg, "")

\* C17: once the constructor has returned, no public operation changes the
\* instance: groebner_basis (any selector), flats_generator(), a caller's
\* assignment to the mapping flats_generator() returned, and matroid() leave
\* the flat list, the flat-to-variable mapping and the generator sequence as
\* they were, and every groebner_basis(algorithm='') returns the same sequence.
C17_Immutable ==
    [][Ready =>
        /\ flats' = flats
        /\ flats_generator' = flats_generator
        /\ gens' = gens
        /\ pc' = "ready"
        /\ (call'.op = "groebner_basis" /\ call'.args = <<"">>) => ret' = ConstructedBasis
      ]_vars

\* the caller has changed the mapping it was given and the mapping of the
\* instance is not the changed one
C17_Witness ==
    /\ Ready
    /\ call.op = "mutate"
    /\ ret.val # flats_generator
    /\ Len(flats) >= 2

\* the matroid on {a, b, c} = {1, 2, 3} with the bases ab and ac
BasesAbAc == [n |-> 3, bases |-> {{1, 2}, {1, 3}}]

\* C18: for the rank-2 matroid on {a, b, c} with bases ab and ac, whose proper
\* flats are {a} and {b, c}, the non-augmented groebner_basis(algorithm='')
\* returns the two indeterminates x_{a}, x_{bc} and nothing else.
C18_TwoIndeterminates ==
    (Ready /\ kind = "nonaug" /\ matroid = BasesAbAc) =>
        /\ flats = <<{1}, {2, 3}>>
        /\ CombinatorialCall => ret = RetSeq(<<XF({1}), XF({2, 3})>>)

\* groebner_basis(algorithm='') has returned on that matroid, whose ring has
\* the names A1 and A23
C18_Witness ==
    /\ Ready
    /\ kind = "nonaug"
    /\ matroid = BasesAbAc
    /\ CombinatorialCall
    /\ Len(ret.val) = 2
    /\ ring.names = <<<<"A", "1">>, <<"A", "2", "3">>>>

\* the matroid has rank 2 and its rank-1 flats all have the same cardinality
EqualAtoms ==
    /\ full_rank(matroid) = 2
    /\ \A F \in ProperFlats, G \in ProperFlats : Cardinality(F) = Cardinality(G)

\* the product of the indeterminates of the flats in S
ProductOver(S) ==
    [m \in {[v \in 1 .. ring.ngens |->
                IF v \in {flats_generator.flat[F] : F \in S} THEN 1 ELSE 0]} |-> 1]

\* the degree of a monomial p
DegreeOf(p) == MDeg(CHOOSE m \in DOMAIN p : TRUE)

\* the graphic matroid of the 3-cycle: three edges, any two of them a basis
ThreeCycle == Uniform(2, 3)

\* C19: on a rank-2 matroid whose n rank-1 flats have the same cardinality the
\* non-augmented groebner_basis(algorithm='') returns 2^n - 1 polynomials: the
\* n atom indeterminates, then the product of every set of at least two
\* atoms, each once, by increasing size of the set; on the 3-cycle these are
\* x1, x2, x3, x1*x2, x1*x3, x2*x3, x1*x2*x3.
C19_AtomProducts ==
    (Ready /\ kind = "nonaug" /\ EqualAtoms /\ CombinatorialCall) =>
        LET n == Len(flats)
            gb == ret.val
            tail == (n + 1) .. Len(gb)
        IN  /\ ret.tag = "seq"
            /\ Len(gb) = 2^n - 1
            /\ \A i \in 1 .. n : gb[i] = XF(flats[i])
            /\ {gb[i] : i \in tail}
                 = {ProductOver(S) : S \in {T \in SUBSET ProperFlats : Cardinality(T) >= 2}}
            /\ \A i \in tail, j \in tail : i < j =>
                  gb[i] # gb[j] /\ DegreeOf(gb[i]) <= DegreeOf(gb[j])
            /\ matroid = ThreeCycle =>
                  gb = <<XF({1}), XF({2}), XF({3}),
                         PMul(XF({1}), XF({2})), PMul(XF({1}), XF({3})),
                         PMul(XF({2}), XF({3})),
                         PMul(XF({1}), PMul(XF({2}), XF({3})))>>

\* groebner_basis(algorithm='') has returned seven polynomials on the 3-cycle
C19_Witness ==
    /\ Ready
    /\ kind = "nonaug"
    /\ matroid = ThreeCycle
    /\ CombinatorialCall
    /\ Len(ret.val) = 7

\* C20: for the uniform matroid of rank 2 on n >= 2 elements the
\* Feitchner-Yuzvinsky groebner_basis(algorithm='') returns one sequence of
\* 2*n^3 polynomials in a ring of 2*n variables.
C20_FyUniformCount ==
    (Ready /\ kind = "fy" /\ matroid.n >= 2 /\ matroid = Uniform(2, matroid.n)
       /\ CombinatorialCall) =>
        /\ ret.tag = "seq"
        /\ Len(ret.val) = 2 * matroid.n * matroid.n * matroid.n
        /\ ring.ngens = 2 * matroid.n
        /\ Len(ring.names) = 2 * matroid.n
        /\ \A i \in DOMAIN ret.val : \A m \in DOMAIN ret.val[i] : Len(m) = 2 * matroid.n

\* the 250 polynomials in 10 variables of U(2, 5)
C20_Witness ==
    /\ Ready
    /\ kind = "fy"
    /\ matroid = Uniform(2, 5)
    /\ CombinatorialCall
    /\ Len(ret.val) = 250
    /\ ring.ngens = 10

\* the ordered pairs <<i, j>> of positions of the flat list, row by row
RowMajor(n) == [k \in 1 .. (n * n) |-> <<((k - 1) \div n) + 1, ((k - 1) % n) + 1>>]

\* the ordered pairs of flats that are not strictly nested, row by row
UnnestedPairs ==
    SelectSeq(RowMajor(Len(flats)),
              LAMBDA pr : ~ProperSubset(flats[pr[1]], flats[pr[2]])
                          /\ ~ProperSubset(flats[pr[2]], flats[pr[1]]))

\* C21: the atom-free groebner_basis(algorithm='') emits x_F * x_G for every
\* ordered pair of flats that are not strictly nested, squares and both
\* orders included, row by row of the flat list, and these are its only
\* polynomials of degree 2; on a rank-2 matroid with n rank-1 flats it returns
\* exactly the n^2 products x_{F_i} * x_{F_j} in row-major order, on the
\* 3-cycle A0^2, A0*A1, A0*A2, A0*A1, A1^2, A1*A2, A0*A2, A1*A2, A2^2.
C21_AtomFreeProducts ==
    (Ready /\ kind = "atom_free" /\ CombinatorialCall) =>
        LET n == Len(flats)
            gb == ret.val
            pairs == UnnestedPairs
        IN  /\ ret.tag = "seq"
            /\ SelectSeq(gb, IsQuadratic)
                 = [k \in DOMAIN pairs |->
                       PMul(XF(flats[pairs[k][1]]), XF(flats[pairs[k][2]]))]
            /\ full_rank(matroid) = 2 =>
                  /\ Len(gb) = n * n
                  /\ \A i \in 1 .. n, j \in 1 .. n :
                        gb[(i - 1) * n + j] = PMul(XF(flats[i]), XF(flats[j]))
            /\ matroid = ThreeCycle =>
                  gb = <<PMul(XF({1}), XF({1})), PMul(XF({1}), XF({2})),
                         PMul(XF({1}), XF({3})), PMul(XF({1}), XF({2})),
                         PMul(XF({2}), XF({2})), PMul(XF({2}), XF({3})),
                         PMul(XF({1}), XF({3})), PMul(XF({2}), XF({3})),
                         PMul(XF({3}), XF({3}))>>

\* the nine products of the 3-cycle have been returned
C21_Witness ==
    /\ Ready
    /\ kind = "atom_free"
    /\ matroid = ThreeCycle
    /\ CombinatorialCall
    /\ Len(ret.val) = 9
    /\ ret.val[5] = PMul(XF({2}), XF({2}))

\* the name of the indeterminate attached to the flat F, to the element x
NameOfFlat(F) == ring.names[flats_generator.flat[F]]

NameOfElem(x) == ring.names[flats_generator.elem[x]]

\* the registry __init__ builds for the flat list fs
RegistryOf(fs) ==
    IF kind = "fy" THEN flats_generator_fy(matroid, labels, fs) ELSE flats_generator_zip(fs)

\* a construction that enumerates the flats in the order fs attaches to every
\* flat and to every element the name the instance attaches to it
SameNamesFrom(fs) ==
    LET again == poly_ring_of(kind, matroid, labels, fs)
        fg == RegistryOf(fs)
    IN  /\ again.tag = "ring"
        /\ \A F \in Range(fs) : again.names[fg.flat[F]] = NameOfFlat(F)
        /\ kind = "fy" =>
              \A x \in groundset(matroid) : again.names[fg.elem[x]] = NameOfElem(x)

\* the flat list with the flats at the positions i and j exchanged
Exchanged(fs, i, j) ==
    [k \in DOMAIN fs |-> IF k = i THEN fs[j] ELSE IF k = j THEN fs[i] ELSE fs[k]]

\* C22: constructing the presentation a second time from the same matroid
\* and the same labels yields the same ring names and the same name for
\* every flat and every groundset element; when the readable names are
\* accepted, the name of a flat does not change when the flats are
\* enumerated in another order (any two flats exchanged).
C22_NamesDeterministic ==
    Ready =>
        LET fs == proper_flats(matroid)
        IN  /\ poly_ring_of(kind, matroid, labels, fs).names = ring.names
            /\ SameNamesFrom(fs)
            /\ ~(InvalidName \/ DuplicateName) =>
                  \A i \in DOMAIN fs, j \in DOMAIN fs : SameNamesFrom(Exchanged(fs, i, j))

\* an instance with readable names built from labels of more than one
\* character, with at least two flats
C22_Witness ==
    /\ Ready
    /\ ~(InvalidName \/ DuplicateName)
    /\ UsesReadableNames
    /\ Len(flats) >= 2
    /\ \E x \in groundset(matroid) : Len(labels[x]) > 1
    /\ \E F \in ProperFlats : Len(NameOfFlat(F)) > 2

\* the members of S are pairwise nested
IsChain(S) == \A F \in S, G \in S : F \subseteq G \/ G \subseteq F

\* the subset S of the proper flats as the engine enumerates it
AsSubset(S) == SelectSeq(flats, LAMBDA F : F \in S)

\* what the non-augmented engine appends for the subset S
ContributionOf(S) ==
    nonaug_contribution(matroid, ring.ngens, flats_generator, flats, AsSubset(S))

\* C23: in the non-augmented groebner_basis(algorithm='') every subset of
\* proper flats that is not a chain contributes the product of the
\* indeterminates of its members to the returned basis, and a subset that is
\* a chain does not contribute its product.
C23_NonChainProducts ==
    (Ready /\ kind = "nonaug" /\ CombinatorialCall) =>
        \A S \in SUBSET ProperFlats :
            /\ ~IsChain(S) => ProductOver(S) \in Range(ret.val)
            /\ IsChain(S) => ProductOver(S) \notin Range(ContributionOf(S))

\* the proper flats G with G containing or equal to F
FlatsAbove(F) == {G \in ProperFlats : F \subseteq G}

\* C24: in the non-augmented groebner_basis(algorithm='') the empty subset
\* contributes, for every proper flat F in flat-list order, exactly one term:
\* the sum of x_G over the proper flats G containing or equal to F, raised to
\* the power rank(F); these |flats| terms are the first elements of the
\* returned basis.
C24_EmptySubsetTerms ==
    (Ready /\ kind = "nonaug" /\ CombinatorialCall) =>
        LET n == Len(flats)
            gb == ret.val
        IN  /\ ret.tag = "seq"
            /\ Len(gb) >= n
            /\ \A i \in 1 .. n :
                  gb[i] = PPow(ring.ngens, XSum(FlatsAbove(flats[i])), rank(matroid, flats[i]))
            /\ ContributionOf({}) = SubSeq(gb, 1, n)

\* on the free matroid of rank 3 the basis starts with x_1 + x_12 + x_13 and
\* its fourth element is x_12^2
C24_Witness ==
    /\ Ready
    /\ kind = "nonaug"
    /\ CombinatorialCall
    /\ matroid = Uniform(3, 3)
    /\ ret.val[1] = XSum({{1}, {1, 2}, {1, 3}})
    /\ ret.val[4] = PMul(XF({1, 2}), XF({1, 2}))

\* a non-empty subset whose members have pairwise distinct cardinalities and
\* are pairwise non-nested: it passes both checks of the engine
Qualifying(S) ==
    /\ S # {}
    /\ \A F \in S, G \in S : F # G =>
          /\ Cardinality(F) # Cardinality(G)
          /\ ~(F \subseteq G)

\* the member of S of the largest cardinality
LargestOf(S) == CHOOSE G \in S : \A H \in S : Cardinality(H) <= Cardinality(G)

\* product of S times (sum of x_G, G >= F)^(rank(F) - rank(largest member of S))
PowerTerm(S, F) ==
    PMul(ProductOver(S),
         PPow(ring.ngens, XSum(FlatsAbove(F)),
              rank(matroid, F) - rank(matroid, LargestOf(S))))

\* the proper flats that strictly contain the union of S
StrictlyAboveUnion(S) == {F \in ProperFlats : ProperSubset(UNION S, F)}

\* C25: in the non-augmented groebner_basis(algorithm='') the returned basis
\* contains, for every pair of proper flats H strictly inside F, the term
\* x_H * (sum of x_G, G >= F)^(rank(F) - rank(H)); more generally a
\* qualifying subset S contributes, for each proper flat F strictly
\* containing the union of S, the product of the indeterminates of S times
\* that sum raised to rank(F) minus the rank of the largest member of S, and
\* nothing else.
C25_PowerTerms ==
    (Ready /\ kind = "nonaug" /\ CombinatorialCall) =>
        /\ \A H \in ProperFlats, F \in ProperFlats :
              ProperSubset(H, F) =>
                  PMul(XF(H), PPow(ring.ngens, XSum(FlatsAbove(F)),
                                   rank(matroid, F) - rank(matroid, H)))
                      \in Range(ret.val)
        /\ \A S \in SUBSET ProperFlats :
              Qualifying(S) =>
                  /\ \A F \in StrictlyAboveUnion(S) : PowerTerm(S, F) \in Range(ret.val)
                  /\ Range(ContributionOf(S)) = {PowerTerm(S, F) : F \in StrictlyAboveUnion(S)}
                  /\ Len(ContributionOf(S)) = Cardinality(StrictlyAboveUnion(S))

\* on the rank-3 matroid with the parallel pair {2, 3} the subset of the
\* flats {1} and {2, 3} has contributed x_1 * x_23 * x_1234
C25_Witness ==
    /\ Ready
    /\ kind = "nonaug"
    /\ CombinatorialCall
    /\ matroid = ParallelOnLine
    /\ Qualifying({{1}, {2, 3}})
    /\ StrictlyAboveUnion({{1}, {2, 3}}) = {{1, 2, 3, 4}}
    /\ PMul(XF({1}), PMul(XF({2, 3}), XF({1, 2, 3, 4}))) \in Range(ret.val)

\* C26: no polynomial of the sequence returned by groebner_basis(algorithm='')
\* is the zero polynomial, for each of the three presentations: a candidate
\* whose sum factor is an empty sum is skipped.
C26_NoZeroPolynomial ==
    (Ready /\ CombinatorialCall) =>
        /\ ret.tag = "seq"
        /\ \A i \in DOMAIN ret.val : ~IsZero(ret.val[i])

\* the atom-free engine has run on a matroid of rank 3: for the atom {1}
\* inside the flat {1, 2} the sum over the flats below {1} is empty, and the
\* pair has contributed nothing
C26_Witness ==
    /\ Ready
    /\ kind = "atom_free"
    /\ CombinatorialCall
    /\ matroid = Uniform(3, 3)
    /\ IsZero(SumStrictlyBelow(ring.ngens, flats_generator, flats, {1}))
    /\ Len(ret.val) = Len(UnnestedPairs)
    /\ Len(ret.val) < Len(flats) * Len(flats)

\* a chain of two or more flats: its members are pairwise nested
GenuineChain(S) == Cardinality(S) >= 2 /\ IsChain(S)

\* two members of S have the same cardinality
HasEqualCardinalities(S) ==
    \E F \in S, G \in S : F # G /\ Cardinality(F) = Cardinality(G)

\* C27: in the non-augmented groebner_basis(algorithm='') a chain of two or
\* more proper flats contributes nothing, and the term it would give with a
\* flat above it is not in the returned basis; among the subsets that pass
\* the first check (no two members of the same cardinality) only the empty
\* subset and the qualifying ones (one flat, or pairwise non-nested flats)
\* contribute, so that the returned basis consists of the |flats| terms of
\* the empty subset, one product for each subset with two members of the
\* same cardinality, and the power terms of the qualifying subsets.
C27_ChainsContributeNothing ==
    (Ready /\ kind = "nonaug" /\ CombinatorialCall) =>
        LET distinct == {S \in SUBSET ProperFlats : ~HasEqualCardinalities(S)}
            qualifying == {S \in distinct : Qualifying(S)}
        IN  /\ \A S \in distinct :
                  /\ GenuineChain(S) =>
                        /\ ContributionOf(S) = <<>>
                        /\ \A F \in StrictlyAboveUnion(S) :
                              PowerTerm(S, F) \notin Range(ret.val)
                  /\ (S # {} /\ S \notin qualifying) => ContributionOf(S) = <<>>
            /\ \A S \in SUBSET ProperFlats : GenuineChain(S) => S \in distinct
            /\ Len(ret.val)
                 = Len(flats)
                   + (2^Len(flats) - Cardinality(distinct))
                   + SumF([S \in qualifying |-> Cardinality(StrictlyAboveUnion(S))],
                          qualifying)

\* on the free matroid of rank 4 the chain {1} < {1, 2} lies below the flats
\* {1, 2, 3} and {1, 2, 4} and has contributed nothing
C27_Witness ==
    /\ Ready
    /\ kind = "nonaug"
    /\ CombinatorialCall
    /\ matroid = FreeRank4
    /\ GenuineChain({{1}, {1, 2}})
    /\ StrictlyAboveUnion({{1}, {1, 2}}) = {{1, 2, 3}, {1, 2, 4}}
    /\ PMul(XF({1}), PMul(XF({1, 2}), XF({1, 2, 3}))) \notin Range(ret.val)

\* C28: every product y_i * x_F of an element indeterminate with a flat
\* indeterminate in the sequence returned by the Feitchner-Yuzvinsky
\* groebner_basis(algorithm='') has i not in F.
C28_ElementNotInFlat ==
    (Ready /\ kind = "fy" /\ CombinatorialCall) =>
        \A x \in groundset(matroid), F \in ProperFlats :
            PMul(YE(x), XF(F)) \in Range(ret.val) => x \notin F

\* the proper flats that strictly contain G
FlatsStrictlyAbove(G) == {H \in ProperFlats : ProperSubset(G, H)}

\* x_G * (sum of x_H, H > G)^(rank(F) - rank(G))
NestedTerm(G, F) ==
    PMul(XF(G), PPow(ring.ngens, XSum(FlatsStrictlyAbove(G)),
                     rank(matroid, F) - rank(matroid, G)))

\* C29: for every pair of proper flats G strictly inside F the sequence
\* returned by the Feitchner-Yuzvinsky groebner_basis(algorithm='') contains
\* the term x_G * (sum of x_H over the proper flats H strictly containing
\* G)^(rank(F) - rank(G)).
C29_NestedFlatsTerm ==
    (Ready /\ kind = "fy" /\ CombinatorialCall) =>
        \A G \in ProperFlats, F \in ProperFlats :
            ProperSubset(G, F) => NestedTerm(G, F) \in Range(ret.val)

\* the constant term of the polynomial p
ConstantTerm(p) == Coeff(p, MOne(ring.ngens))

\* C30: every polynomial of the sequence returned by the Feitchner-Yuzvinsky
\* groebner_basis(algorithm='') has constant term zero, like every generator
\* built by the Feitchner-Yuzvinsky constructor.
C30_ZeroConstantTerm ==
    (Ready /\ kind = "fy") =>
        /\ \A i \in DOMAIN gens : ConstantTerm(gens[i]) = 0
        /\ CombinatorialCall => \A i \in DOMAIN ret.val : ConstantTerm(ret.val[i]) = 0

====
